---- MODULE Spec2Model ----
(***************************************************************************)
(* Model of the Application reconciler of argocdsyncer                     *)
(* (controllers/application_controller.go).                                *)
(*                                                                         *)
(* One worker runs Reconcile (controller-runtime's default of one          *)
(* concurrent reconcile; SetupWithManager sets no other).  Every store     *)
(* call of a cycle is one step, together with the local computation that   *)
(* follows it up to the next store call, so that other clients of the      *)
(* store (users, the downstream engine) interleave between the calls.      *)
(***************************************************************************)
EXTENDS Integers, Sequences, FiniteSets, TLC

\* ---------------------------------------------------------------- bounds
\* Writes other clients of the store (users, the downstream engine) may make.
MaxEnvOps == 2

\* ------------------------------------------------------------- constants
defaultFinalizer == "argoproj.io/finalizer"
argoFinalizer == "resources-finalizer.argocd.argoproj.io"
appNamespace == "argocd"

SourceNamespaces == {"team-a", "team-b"}
Namespaces == SourceNamespaces \cup {appNamespace}
Markers == {defaultFinalizer, argoFinalizer}
Revs == {1, 2}
MetaValues == {"m1", "m2"}

\* The Go zero value of an Application (app := &appv1.Application{}); it also
\* stands for "no object" in the store: stored objects have rv > 0.
Zero ==
  [ns |-> "", spec |-> [dest |-> "", rev |-> 0], labels |-> "", annotations |-> "",
   fins |-> {}, del |-> FALSE, rv |-> 0]

\* A namespace other than n, for a spec that fails validation in n.
Other(n) == IF n = "team-a" THEN "team-b" ELSE "team-a"

\* The specs an Application in namespace n is given: the valid ones
\* (destination n) and one whose destination is another namespace.
Specs(n) == {[dest |-> n, rev |-> r] : r \in Revs} \cup {[dest |-> Other(n), rev |-> 1]}

VARIABLES
  store,    \* namespace -> the Application named "foo" stored there, or Zero
  pc,       \* position of the worker inside Reconcile; "done" when it returns,
            \* "idle" between cycles
  seen,     \* the source as returned by the Get of this cycle
  res,      \* desiredResource: the in-memory source, as mutated by the cycle
  app,      \* the mirror as returned by the lookup of this cycle
  calls,    \* store calls issued by the current cycle, in order
  ret,      \* what the cycle returns: "ok" or "fault" ("none" before it returns)
  envOps    \* writes left to the other clients

vars == <<store, pc, seen, res, app, calls, ret, envOps>>

Exists(o) == o.rv # 0

\* resourceVersion is an opaque token compared only for equality: a write gets
\* the smallest token that no stored object and no copy held by the worker uses.
RvInUse ==
  {store[n].rv : n \in Namespaces} \cup {seen.rv, res.rv, app.rv}
    \cup {calls[i].obj.rv : i \in 1..Len(calls)}
    \cup {calls[i].sent.rv : i \in 1..Len(calls)}

FreshRv == CHOOSE v \in 1..(Cardinality(RvInUse) + 1) : v \notin RvInUse

\* --------------------------------------------------------- store semantics
\* Each returns [result, obj, store]: the result of the call, the object the
\* client gets back, and the store afterwards.

StoreGet(st, n) ==
  IF Exists(st[n]) THEN [result |-> "ok", obj |-> st[n], store |-> st]
  ELSE [result |-> "NotFound", obj |-> Zero, store |-> st]

StoreCreate(st, o, rv) ==
  IF Exists(st[o.ns]) THEN [result |-> "AlreadyExists", obj |-> o, store |-> st]
  ELSE LET new == [o EXCEPT !.rv = rv, !.del = FALSE]
       IN [result |-> "ok", obj |-> new, store |-> [st EXCEPT ![o.ns] = new]]

\* Update replaces the whole object (spec and metadata, finalizers included);
\* the deletion marker is the store's.  An object with the deletion marker and
\* no finalizer left is removed.
StoreUpdate(st, o, rv) ==
  LET cur == st[o.ns] IN
  IF ~Exists(cur) THEN [result |-> "NotFound", obj |-> o, store |-> st]
  ELSE IF o.rv = 0 THEN [result |-> "Invalid", obj |-> o, store |-> st]
  ELSE IF o.rv # cur.rv THEN [result |-> "Conflict", obj |-> o, store |-> st]
  ELSE IF cur.del /\ ~(o.fins \subseteq cur.fins)
    THEN [result |-> "Invalid", obj |-> o, store |-> st]
  ELSE LET new == [o EXCEPT !.rv = rv, !.del = cur.del]
       IN [result |-> "ok", obj |-> new,
           store |-> [st EXCEPT ![o.ns] = IF new.del /\ new.fins = {} THEN Zero ELSE new]]

StoreDelete(st, n, rv) ==
  LET cur == st[n] IN
  IF ~Exists(cur) THEN [result |-> "NotFound", obj |-> Zero, store |-> st]
  ELSE IF cur.fins = {} THEN [result |-> "ok", obj |-> cur, store |-> [st EXCEPT ![n] = Zero]]
  ELSE IF cur.del THEN [result |-> "ok", obj |-> cur, store |-> st]
  ELSE LET new == [cur EXCEPT !.del = TRUE, !.rv = rv]
       IN [result |-> "ok", obj |-> new, store |-> [st EXCEPT ![n] = new]]

\* A transient fault: the call fails and the store is untouched.
StoreFault(st, o) == [result |-> "Fault", obj |-> o, store |-> st]

\* A logged call: the operation, the namespace of its target, the object sent,
\* the result, and the object the client holds afterwards.
Call(op, n, o, r) == [op |-> op, ns |-> n, sent |-> o, result |-> r.result, obj |-> r.obj]

\* ------------------------------------------------------- controller helpers
ContainsFinalizer(resource, f) == f \in resource.fins
AddFinalizer(resource, f) == [resource EXCEPT !.fins = @ \cup {f}]
RemoveFinalizer(resource, f) == [resource EXCEPT !.fins = @ \ {f}]

hasDefaultFinalizer(resource) == ContainsFinalizer(resource, defaultFinalizer)
hasArgoFinalizer(resource) == ContainsFinalizer(resource, argoFinalizer)

\* Mutant of IgnoreNotFound: a conflict is dropped like a NotFound.
IgnoreNotFoundOrConflict(result) == IF result \in {"NotFound", "Conflict"} THEN "ok" ELSE result

\* Mutant of IgnoreNotFound: a NotFound error is returned like any other.
IgnoreNotFoundNever(result) == result

\* client.IgnoreNotFound: a NotFound error becomes nil.
IgnoreNotFound(result) == IF result = "NotFound" THEN "ok" ELSE result

\* Mutant of Returned: the error is logged and nil is returned.
ReturnedNil(result) == "ok"

\* What Reconcile returns for an error result: nil ("ok") or the error.
Returned(result) == IF IgnoreNotFound(result) = "ok" THEN "ok" ELSE "fault"

\* Mutant of IsTargetNamespace: the guard is missing.
IsTargetNamespaceNever(resource) == FALSE

\* Reconcile: desiredResource.Namespace == appNamespace.
IsTargetNamespace(resource) == resource.ns = appNamespace

\* Mutant of validate: every spec is accepted.
validateAccepts(resource) == "ok"

validate(resource) ==
  IF resource.spec.dest # resource.ns THEN "ValidationFailed" ELSE "ok"

generateApplication(resource, namespace) ==
  [Zero EXCEPT !.ns = namespace, !.labels = resource.labels,
               !.annotations = resource.annotations, !.spec = resource.spec]

\* The desired mirror of createOrUpdateApplication.
DesiredApplication(resource) ==
  LET d == generateApplication(resource, appNamespace)
  IN IF hasArgoFinalizer(resource) THEN AddFinalizer(d, argoFinalizer) ELSE d

\* Mutant of SpecDiffers: the mirror is updated whatever its spec.
SpecDiffersAlways(existing, desired) == TRUE

\* !reflect.DeepEqual(app.Spec, desiredApplication.Spec)
SpecDiffers(existing, desired) == existing.spec # desired.spec

\* Mutant of WithResourceVersion: the version read is not copied.
WithoutResourceVersion(desired, existing) == desired

\* desiredApplication.ResourceVersion = app.ResourceVersion
WithResourceVersion(desired, existing) == [desired EXCEPT !.rv = existing.rv]

\* Mutant of AfterFetch: the teardown does not look for the own marker.
AfterFetchAlwaysFinalizes(resource) ==
  IF IsTargetNamespace(resource) THEN [pc |-> "done", ret |-> "ok"]
  ELSE IF resource.del THEN [pc |-> "finalize", ret |-> "none"]
  ELSE IF ~hasDefaultFinalizer(resource) THEN [pc |-> "inject", ret |-> "none"]
  ELSE IF validate(resource) # "ok"
    THEN [pc |-> "done", ret |-> Returned(validate(resource))]
  ELSE [pc |-> "lookup", ret |-> "none"]

\* Mutant of AfterFetch: a source without the own marker is mirrored as it is.
AfterFetchSkipsInjection(resource) ==
  IF IsTargetNamespace(resource) THEN [pc |-> "done", ret |-> "ok"]
  ELSE IF resource.del
    THEN IF ContainsFinalizer(resource, defaultFinalizer)
         THEN [pc |-> "finalize", ret |-> "none"]
         ELSE [pc |-> "done", ret |-> "ok"]
  ELSE IF validate(resource) # "ok"
    THEN [pc |-> "done", ret |-> Returned(validate(resource))]
  ELSE [pc |-> "lookup", ret |-> "none"]

\* The branch Reconcile takes on a source it has read: [pc, ret].
AfterFetch(resource) ==
  IF IsTargetNamespace(resource) THEN [pc |-> "done", ret |-> "ok"]
  ELSE IF resource.del
    THEN IF ContainsFinalizer(resource, defaultFinalizer)
         THEN [pc |-> "finalize", ret |-> "none"]
         ELSE [pc |-> "done", ret |-> "ok"]
  ELSE IF ~hasDefaultFinalizer(resource) THEN [pc |-> "inject", ret |-> "none"]
  ELSE IF validate(resource) # "ok"
    THEN [pc |-> "done", ret |-> Returned(validate(resource))]
  ELSE [pc |-> "lookup", ret |-> "none"]

\* ------------------------------------------------------------------- Init
\* The controller starts on an empty store, or on one where an Application of
\* team-a was mirrored by an earlier run.
Empty == [n \in Namespaces |-> Zero]

Mirrored ==
  LET src == [Zero EXCEPT !.ns = "team-a", !.spec = [dest |-> "team-a", rev |-> 1],
                          !.labels = "m1", !.annotations = "m1",
                          !.fins = {defaultFinalizer}, !.rv = 1]
  IN [n \in Namespaces |->
        IF n = "team-a" THEN src
        ELSE IF n = appNamespace THEN [generateApplication(src, appNamespace) EXCEPT !.rv = 2]
        ELSE Zero]

Init ==
  /\ store \in {Empty, Mirrored}
  /\ pc = "idle"
  /\ seen = Zero
  /\ res = Zero
  /\ app = Zero
  /\ calls = <<>>
  /\ ret = "none"
  /\ envOps = MaxEnvOps

\* A call either reaches the store (r) or fails with a transient fault.
Outcome(r, o, out) == out = r \/ out = StoreFault(store, o)

End(result) ==
  /\ pc' = "done"
  /\ ret' = Returned(result)

\* ------------------------------------------------------------- Reconcile
\* r.Get of the source, then the guard, the deletion check, the finalizer
\* check and the validation.
Fetch(n) ==
  /\ pc = "idle"
  /\ \E out \in {StoreGet(store, n), StoreFault(store, Zero)} :
       /\ Outcome(StoreGet(store, n), Zero, out)
       /\ calls' = <<Call("get", n, Zero, out)>>
       /\ seen' = out.obj
       /\ res' = out.obj
       /\ app' = Zero
       /\ IF out.result = "ok"
            THEN pc' = AfterFetch(out.obj).pc /\ ret' = AfterFetch(out.obj).ret
            ELSE End(out.result)
  /\ UNCHANGED <<store, envOps>>


\* Mutant of FinalizerFailed: the error of the deletion callback is dropped.
FinalizerFailedDropped(result) == FALSE

\* finalize: r.Delete of the mirror; err != nil aborts the teardown.
FinalizerFailed(result) == result # "ok"

DeleteMirror ==
  /\ pc = "finalize"
  /\ LET desiredApplication == generateApplication(res, appNamespace) IN
     \E out \in {StoreDelete(store, desiredApplication.ns, FreshRv),
                 StoreFault(store, desiredApplication)} :
       /\ Outcome(StoreDelete(store, desiredApplication.ns, FreshRv), desiredApplication, out)
       /\ calls' = Append(calls, Call("delete", desiredApplication.ns, desiredApplication, out))
       /\ store' = out.store
       /\ IF FinalizerFailed(out.result)
            THEN End(out.result)
            ELSE pc' = "rmOwn" /\ ret' = ret
  /\ UNCHANGED <<seen, res, app, envOps>>

\* processDefaultFinalization: RemoveFinalizer(defaultFinalizer) and Update.
AfterRemoveOwn(resource) ==
  IF hasArgoFinalizer(resource) THEN [pc |-> "rmArgo", ret |-> "none"]
  ELSE [pc |-> "done", ret |-> "ok"]

RemoveOwn ==
  /\ pc = "rmOwn"
  /\ LET o == RemoveFinalizer(res, defaultFinalizer) IN
     \E out \in {StoreUpdate(store, o, FreshRv), StoreFault(store, o)} :
       /\ Outcome(StoreUpdate(store, o, FreshRv), o, out)
       /\ calls' = Append(calls, Call("update", o.ns, o, out))
       /\ store' = out.store
       /\ res' = out.obj
       /\ IF out.result = "ok"
            THEN pc' = AfterRemoveOwn(out.obj).pc /\ ret' = AfterRemoveOwn(out.obj).ret
            ELSE End(out.result)
  /\ UNCHANGED <<seen, app, envOps>>

\* processDefaultFinalization: RemoveFinalizer(argoFinalizer) and second Update.
RemoveArgo ==
  /\ pc = "rmArgo"
  /\ LET o == RemoveFinalizer(res, argoFinalizer) IN
     \E out \in {StoreUpdate(store, o, FreshRv), StoreFault(store, o)} :
       /\ Outcome(StoreUpdate(store, o, FreshRv), o, out)
       /\ calls' = Append(calls, Call("update", o.ns, o, out))
       /\ store' = out.store
       /\ res' = out.obj
       /\ End(out.result)
  /\ UNCHANGED <<seen, app, envOps>>

\* Mutant of AfterInject: a successful injection falls through to mirroring.
AfterInjectFallsThrough(result) ==
  IF result = "ok" THEN [pc |-> "lookup", ret |-> "none"]
  ELSE [pc |-> "done", ret |-> Returned(result)]

\* Reconcile after InjectDefaultFinalizer: return, whatever the result.
AfterInject(result) == [pc |-> "done", ret |-> Returned(result)]

\* InjectDefaultFinalizer: AddFinalizer(defaultFinalizer) and Update.
Inject ==
  /\ pc = "inject"
  /\ LET o == AddFinalizer(res, defaultFinalizer) IN
     \E out \in {StoreUpdate(store, o, FreshRv), StoreFault(store, o)} :
       /\ Outcome(StoreUpdate(store, o, FreshRv), o, out)
       /\ calls' = Append(calls, Call("update", o.ns, o, out))
       /\ store' = out.store
       /\ res' = out.obj
       /\ pc' = AfterInject(out.result).pc
       /\ ret' = AfterInject(out.result).ret
  /\ UNCHANGED <<seen, app, envOps>>

\* createOrUpdateApplication after the lookup: create when the Get said
\* NotFound; otherwise (found, or any other error) compare the specs.
AfterLookup(result, existing, desired) ==
  IF result = "NotFound" THEN [pc |-> "create", ret |-> "none"]
  ELSE IF SpecDiffers(existing, desired) THEN [pc |-> "update", ret |-> "none"]
  ELSE [pc |-> "done", ret |-> "ok"]

\* createOrUpdateApplication: r.Get of the mirror.
Lookup ==
  /\ pc = "lookup"
  /\ LET desiredApplication == DesiredApplication(res) IN
     \E out \in {StoreGet(store, desiredApplication.ns), StoreFault(store, Zero)} :
       /\ Outcome(StoreGet(store, desiredApplication.ns), Zero, out)
       /\ calls' = Append(calls, Call("get", desiredApplication.ns, Zero, out))
       /\ app' = out.obj
       /\ pc' = AfterLookup(out.result, out.obj, desiredApplication).pc
       /\ ret' = AfterLookup(out.result, out.obj, desiredApplication).ret
  /\ UNCHANGED <<store, seen, res, envOps>>

\* createOrUpdateApplication: r.Create of the desired mirror.
Create ==
  /\ pc = "create"
  /\ LET desiredApplication == DesiredApplication(res) IN
     \E out \in {StoreCreate(store, desiredApplication, FreshRv),
                 StoreFault(store, desiredApplication)} :
       /\ Outcome(StoreCreate(store, desiredApplication, FreshRv), desiredApplication, out)
       /\ calls' = Append(calls, Call("create", desiredApplication.ns, desiredApplication, out))
       /\ store' = out.store
       /\ End(out.result)
  /\ UNCHANGED <<seen, res, app, envOps>>

\* createOrUpdateApplication: r.Update of the mirror with the version read.
UpdateMirror ==
  /\ pc = "update"
  /\ LET desiredApplication == WithResourceVersion(DesiredApplication(res), app) IN
     \E out \in {StoreUpdate(store, desiredApplication, FreshRv),
                 StoreFault(store, desiredApplication)} :
       /\ Outcome(StoreUpdate(store, desiredApplication, FreshRv), desiredApplication, out)
       /\ calls' = Append(calls, Call("update", desiredApplication.ns, desiredApplication, out))
       /\ store' = out.store
       /\ End(out.result)
  /\ UNCHANGED <<seen, res, app, envOps>>

\* --------------------------------------------- other clients of the store
EnvWrite(st) ==
  /\ envOps > 0
  /\ envOps' = envOps - 1
  /\ store' = st
  /\ pc # "done"
  /\ UNCHANGED <<pc, seen, res, app, calls, ret>>

\* Markers of a new Application: a user's source carries at most the external
\* marker (the own marker is the controller's to add); an Application put
\* directly into the target namespace carries any.
CreateFins(n) == IF n = appNamespace THEN SUBSET Markers ELSE {{}, {argoFinalizer}}

\* A user creates an Application.
UserCreate(n, spec, fins) ==
  /\ ~Exists(store[n])
  /\ EnvWrite(StoreCreate(store,
       [Zero EXCEPT !.ns = n, !.spec = spec, !.labels = "m1", !.annotations = "m1",
                    !.fins = fins], FreshRv).store)

\* A user (or, on the mirror, anyone with access) changes the spec.
UserEditSpec(n, spec) ==
  /\ Exists(store[n])
  /\ store[n].spec # spec
  /\ EnvWrite(StoreUpdate(store, [store[n] EXCEPT !.spec = spec], FreshRv).store)

\* A user changes the labels.
UserEditLabels(n, l) ==
  /\ Exists(store[n])
  /\ store[n].labels # l
  /\ EnvWrite(StoreUpdate(store, [store[n] EXCEPT !.labels = l], FreshRv).store)

\* A user changes the annotations.
UserEditAnnotations(n, a) ==
  /\ Exists(store[n])
  /\ store[n].annotations # a
  /\ EnvWrite(StoreUpdate(store, [store[n] EXCEPT !.annotations = a], FreshRv).store)

\* The external marker is added: by a user on a source, by the downstream
\* engine on the mirror.
AddArgoFinalizer(n) ==
  /\ Exists(store[n])
  /\ ~store[n].del
  /\ ~hasArgoFinalizer(store[n])
  /\ EnvWrite(StoreUpdate(store, AddFinalizer(store[n], argoFinalizer), FreshRv).store)

\* A user requests the deletion of an Application.
UserDelete(n) ==
  /\ Exists(store[n])
  /\ ~store[n].del
  /\ EnvWrite(StoreDelete(store, n, FreshRv).store)

\* The downstream engine finishes the deletion of an Application it holds in
\* the target namespace: it removes the external marker.
EngineFinalize ==
  /\ Exists(store[appNamespace])
  /\ store[appNamespace].del
  /\ hasArgoFinalizer(store[appNamespace])
  /\ pc # "done"
  /\ store' = StoreUpdate(store, RemoveFinalizer(store[appNamespace], argoFinalizer),
                          FreshRv).store
  /\ UNCHANGED <<pc, seen, res, app, calls, ret, envOps>>

\* Reconcile returns to the framework; nothing of the cycle is kept.
Return ==
  /\ pc = "done"
  /\ pc' = "idle"
  /\ seen' = Zero /\ res' = Zero /\ app' = Zero
  /\ calls' = <<>>
  /\ ret' = "none"
  /\ UNCHANGED <<store, envOps>>

Controller ==
  \/ \E n \in Namespaces : Fetch(n)
  \/ DeleteMirror
  \/ RemoveOwn
  \/ RemoveArgo
  \/ Inject
  \/ Lookup
  \/ Create
  \/ UpdateMirror
  \/ Return

Environment ==
  \/ \E n \in Namespaces : \E spec \in Specs(n), fins \in CreateFins(n) :
       UserCreate(n, spec, fins)
  \/ \E n \in Namespaces : \E spec \in Specs(n) : UserEditSpec(n, spec)
  \/ \E n \in SourceNamespaces, l \in MetaValues : UserEditLabels(n, l)
  \/ \E n \in SourceNamespaces, a \in MetaValues : UserEditAnnotations(n, a)
  \/ \E n \in Namespaces : AddArgoFinalizer(n)
  \/ \E n \in Namespaces : UserDelete(n)
  \/ EngineFinalize

Next == Controller \/ Environment

Spec == Init /\ [][Next]_vars

\* The last call of the step reached the store.
NoFault == calls' # <<>> /\ calls'[Len(calls')].result # "Fault"

\* The worker never stops and a started cycle runs to its end; the framework
\* keeps invoking Reconcile for every source; faults are transient: no call of
\* the teardown fails every time it is made.
LiveSpec ==
  /\ Spec
  /\ WF_vars(Controller)
  /\ \A n \in SourceNamespaces : SF_vars(Fetch(n) /\ NoFault)
  /\ SF_vars(DeleteMirror /\ NoFault)
  /\ SF_vars(RemoveOwn /\ NoFault)
  /\ SF_vars(RemoveArgo /\ NoFault)

\* A store call of the controller that ends in a transient error.
FaultStep ==
  /\ Len(calls') > Len(calls)
  /\ calls'[Len(calls')].result = "Fault"

\* The fairness under which a live source is brought to its mirror: every
\* source is reconciled again and again, a cycle that was started is carried
\* on, and the transient errors of the store come to an end.
ConvergeSpec ==
  /\ Spec
  /\ WF_vars(Controller)
  /\ \A n \in SourceNamespaces : SF_vars(Fetch(n))
  /\ <>[][~FaultStep]_vars

TypeOK ==
  /\ pc \in {"idle", "done", "finalize", "rmOwn", "rmArgo", "inject", "lookup", "create", "update"}
  /\ ret \in {"none", "ok", "fault"}
  /\ envOps \in 0..MaxEnvOps
  /\ \A n \in Namespaces : Exists(store[n]) => store[n].ns = n

\* ------------------------------------------------------------ properties
\* The cycle has read its source.
SourceRead == calls # <<>> /\ calls[1].result = "ok"

NoMarker(o) == o.fins \cap Markers = {}

\* The cycle reconciles a source with the deletion marker and the own marker.
TeardownCycle ==
  /\ SourceRead
  /\ seen.ns # appNamespace
  /\ seen.del
  /\ defaultFinalizer \in seen.fins

\* The calls of a teardown: delete of the mirror, update of the source without
\* the own marker, update of the source without the external marker.
TeardownOrder ==
  /\ Len(calls) <= 4
  /\ Len(calls) >= 2 =>
       /\ calls[2].op = "delete"
       /\ calls[2].ns = appNamespace
  /\ Len(calls) >= 3 =>
       /\ calls[2].result = "ok"
       /\ calls[3].op = "update"
       /\ calls[3].ns = seen.ns
       /\ calls[3].sent.fins = seen.fins \ {defaultFinalizer}
  /\ Len(calls) >= 4 =>
       /\ calls[3].result = "ok"
       /\ argoFinalizer \in seen.fins
       /\ calls[4].op = "update"
       /\ calls[4].ns = seen.ns
       /\ calls[4].sent.fins = seen.fins \ {defaultFinalizer, argoFinalizer}
  /\ (pc = "done" /\ Len(calls) = 3 /\ calls[3].result = "ok") =>
       argoFinalizer \notin seen.fins

\* A step takes the own marker off a stored source only after the delete of
\* the mirror returned success in the same cycle.
OwnMarkerRemovedAfterDelete ==
  \A n \in SourceNamespaces :
    (defaultFinalizer \in store[n].fins /\ defaultFinalizer \notin store'[n].fins) =>
      /\ Len(calls) >= 2
      /\ calls[1].ns = n
      /\ calls[2].op = "delete"
      /\ calls[2].ns = appNamespace
      /\ calls[2].result = "ok"

\* C1: a teardown issues delete(mirror), update(source without own marker) and,
\* only when the source carries the external marker, a second update(source
\* without external marker), in this order; the own marker leaves the stored
\* source only after the mirror delete of the same cycle returned success.
C1_DeletionOrder ==
  /\ [](TeardownCycle => TeardownOrder)
  /\ [][OwnMarkerRemovedAfterDelete]_vars

\* A teardown that issued all three writes, each with success.
C1_Witness ==
  /\ pc = "done"
  /\ TeardownCycle
  /\ Len(calls) = 4
  /\ calls[4].result = "ok"
  /\ ~Exists(store[seen.ns])

\* C2: when the mirror is already absent, the mirror delete counts as success:
\* the own marker is removed from the stored source in that cycle and
\* Reconcile returns no fault.
C2_AbsentMirrorTolerated ==
  (/\ pc = "done"
   /\ TeardownCycle
   /\ Len(calls) >= 2
   /\ calls[2].op = "delete"
   /\ calls[2].result = "NotFound")
  => (ret = "ok" /\ defaultFinalizer \notin store[seen.ns].fins)

\* C3: a source whose deletion is requested with both markers present ends up
\* without markers, when Reconcile keeps being invoked and faults are transient.
C3_DeletionResumes ==
  \A n \in SourceNamespaces :
    (store[n].del /\ Markers \subseteq store[n].fins) ~> NoMarker(store[n])

\* The cycle reconciles a live source without the own marker.
InjectCycle ==
  /\ SourceRead
  /\ seen.ns # appNamespace
  /\ ~seen.del
  /\ defaultFinalizer \notin seen.fins

\* C4: a cycle on a live source without the own marker issues one write, the
\* update of the source that adds the own marker, and no call on the mirror; a
\* create of the mirror is issued only by a cycle that read the source with the
\* own marker.
C4_InjectThenReturn ==
  /\ InjectCycle =>
       /\ pc \in {"inject", "done"}
       /\ Len(calls) = IF pc = "done" THEN 2 ELSE 1
       /\ Len(calls) = 2 =>
            /\ calls[2].op = "update"
            /\ calls[2].ns = seen.ns
            /\ calls[2].sent = [seen EXCEPT !.fins = @ \cup {defaultFinalizer}]
  /\ \A i \in 1..Len(calls) :
       calls[i].op = "create" =>
         (SourceRead /\ defaultFinalizer \in seen.fins /\ ~seen.del)

\* The own marker was injected on a fresh source and the cycle returned, the
\* mirror not yet there.
C4_Witness ==
  /\ pc = "done"
  /\ InjectCycle
  /\ calls[2].result = "ok"
  /\ ret = "ok"
  /\ defaultFinalizer \in store[seen.ns].fins
  /\ ~Exists(store[appNamespace])

\* The cycle reconciles a live source with the own marker that passes validation.
MirrorCycle ==
  /\ SourceRead
  /\ seen.ns # appNamespace
  /\ ~seen.del
  /\ defaultFinalizer \in seen.fins
  /\ seen.spec.dest = seen.ns

\* The lookup of the cycle found a mirror.
MirrorFound == Len(calls) >= 2 /\ calls[2].op = "get" /\ calls[2].result = "ok"

LastCall == calls[Len(calls)]

\* C5: a cycle that finds the mirror with the spec of the source issues no
\* create, update or delete; and after a successful cycle, while the source is
\* as read and the mirror is as the cycle read or wrote it, the mirror exists
\* with the spec of the source.
C5_IdempotentMirroring ==
  /\ (MirrorCycle /\ MirrorFound /\ calls[2].obj.spec = seen.spec) =>
       (pc = "done" /\ ret = "ok" /\ Len(calls) = 2)
  /\ (/\ MirrorCycle
      /\ pc = "done"
      /\ ret = "ok"
      /\ store[seen.ns] = seen
      /\ LastCall.ns = appNamespace
      /\ LastCall.result = "ok"
      /\ store[appNamespace].rv = LastCall.obj.rv)
     => (Exists(store[appNamespace]) /\ store[appNamespace].spec = store[seen.ns].spec)

\* A cycle on a mirrored, unchanged source: two reads and nothing else.
C5_Witness ==
  /\ MirrorCycle
  /\ pc = "done"
  /\ MirrorFound
  /\ Len(calls) = 2
  /\ store[seen.ns] = seen
  /\ store[appNamespace].spec = seen.spec

\* The cycle is for an Application of the target namespace.
TargetCycle == calls # <<>> /\ calls[1].ns = appNamespace

\* C6: a cycle for an Application of the target namespace, whatever its state,
\* issues no call after the read and returns success.
C6_NamespaceIsolation ==
  TargetCycle =>
    /\ pc = "done"
    /\ Len(calls) = 1
    /\ calls[1].op = "get"
    /\ calls[1].result \in {"ok", "NotFound"} => ret = "ok"

\* An Application of the target namespace with the deletion marker and the own
\* marker was read and ignored.
C6_Witness ==
  /\ TargetCycle
  /\ calls[1].result = "ok"
  /\ seen.del
  /\ defaultFinalizer \in seen.fins
  /\ seen.spec.dest = seen.ns
  /\ ret = "ok"

\* The cycle reconciles a source whose spec names another namespace.
InvalidCycle ==
  /\ SourceRead
  /\ seen.ns # appNamespace
  /\ seen.spec.dest # seen.ns

NoMirrorWrite ==
  \A i \in 1..Len(calls) :
    calls[i].ns = appNamespace => calls[i].op \notin {"create", "update"}

\* C7 as claimed: a cycle on a source that fails validation issues no create or
\* update of the mirror and leaves the stored mirror unchanged.
C7_InvalidLeavesMirror ==
  /\ [](InvalidCycle => NoMirrorWrite)
  /\ [][(InvalidCycle' /\ calls' # calls) => store'[appNamespace] = store[appNamespace]]_vars

\* C7 as amended: the same for a live source (no deletion marker).
C7_LiveInvalidLeavesMirror ==
  /\ []((InvalidCycle /\ ~seen.del) => NoMirrorWrite)
  /\ [][(InvalidCycle' /\ ~seen'.del /\ calls' # calls)
          => store'[appNamespace] = store[appNamespace]]_vars

\* A live source with the own marker was rejected while a mirror of an earlier
\* spec exists.
C7_Witness ==
  /\ InvalidCycle
  /\ ~seen.del
  /\ defaultFinalizer \in seen.fins
  /\ pc = "done"
  /\ Exists(store[appNamespace])
  /\ store[appNamespace].spec # seen.spec

\* C8: a validation failure of a live source with the own marker is not
\* returned as a fault.
C8_ValidationNotAFault ==
  (InvalidCycle /\ ~seen.del /\ defaultFinalizer \in seen.fins /\ pc = "done")
    => ret = "ok"

\* C9: a successful update of the mirror keeps the external marker that the
\* mirror read in the cycle carried.
C9_UpdateKeepsExternalMarker ==
  (/\ MirrorFound
   /\ Len(calls) = 3
   /\ calls[3].op = "update"
   /\ calls[3].ns = appNamespace
   /\ calls[3].result = "ok"
   /\ argoFinalizer \in calls[2].obj.fins)
  => argoFinalizer \in calls[3].obj.fins

\* The cycle found a mirror whose spec differs from the spec of the source.
SpecChanged == MirrorCycle /\ MirrorFound /\ calls[2].obj.spec # seen.spec

\* C10: on a spec change the cycle issues one update of the mirror, with the
\* spec of the source and the version read, and no create or delete; an update
\* whose version is no longer the stored one fails with a conflict (unless it
\* fails before reaching the store) and leaves the stored mirror as it is.
C10_VersionedUpdate ==
  /\ [](SpecChanged =>
         /\ pc \in {"update", "done"}
         /\ Len(calls) = IF pc = "done" THEN 3 ELSE 2
         /\ Len(calls) = 3 =>
              /\ calls[3].op = "update"
              /\ calls[3].ns = appNamespace
              /\ calls[3].sent.spec = seen.spec
              /\ calls[3].sent.rv = calls[2].obj.rv)
  /\ [][(/\ SpecChanged
         /\ pc = "update"
         /\ calls' # calls
         /\ Exists(store[appNamespace])
         /\ store[appNamespace].rv # calls[2].obj.rv)
        => (/\ store' = store
            /\ calls'[3].result \in {"Conflict", "Fault"})]_vars

\* The mirror changed between the lookup and the update: conflict, and the
\* stored mirror keeps what the other writer wrote.
C10_Witness ==
  /\ SpecChanged
  /\ pc = "done"
  /\ calls[3].result = "Conflict"
  /\ ret = "fault"
  /\ Exists(store[appNamespace])
  /\ store[appNamespace].spec # seen.spec

\* The update went through with the version read.
C10_WitnessUpdated ==
  /\ SpecChanged
  /\ pc = "done"
  /\ calls[3].result = "ok"
  /\ store[appNamespace].spec = seen.spec

\* The call failed with an error other than NotFound.
Failed(c) == c.result \notin {"ok", "NotFound"}

\* The stored source of the cycle still awaits its teardown.
AwaitsTeardown ==
  /\ store[seen.ns].del
  /\ defaultFinalizer \in store[seen.ns].fins

\* C11: when the mirror delete or the update removing the own marker fails,
\* the teardown stops there, Reconcile returns a fault and the stored source
\* keeps the own marker and the deletion marker; a cycle that reads such a
\* source starts the teardown with the mirror delete.
C11_TeardownFailureKeepsMarker ==
  TeardownCycle =>
    /\ Len(calls) = 1 => pc = "finalize"
    /\ (Len(calls) >= 2 /\ Failed(calls[2])) =>
         (pc = "done" /\ Len(calls) = 2 /\ ret = "fault" /\ AwaitsTeardown)
    /\ (Len(calls) >= 3 /\ Failed(calls[3])) =>
         (pc = "done" /\ Len(calls) = 3 /\ ret = "fault" /\ AwaitsTeardown)

\* The update removing the own marker met a conflict after the mirror was
\* deleted.
C11_Witness ==
  /\ TeardownCycle
  /\ pc = "done"
  /\ Len(calls) = 3
  /\ calls[2].result = "ok"
  /\ calls[3].result = "Conflict"
  /\ AwaitsTeardown

\* C12: an update rejected with a conflict ends the cycle with a fault, and the
\* step that met the conflict leaves the store as it was.
C12_ConflictNotSwallowed ==
  /\ [](\A i \in 1..Len(calls) :
          (calls[i].op = "update" /\ calls[i].result = "Conflict") =>
            (i = Len(calls) /\ pc = "done" /\ ret = "fault"))
  /\ [][(/\ calls' # calls
         /\ calls' # <<>>
         /\ calls'[Len(calls')].result = "Conflict") => store' = store]_vars

\* The injection of the own marker met a conflict.
C12_Witness ==
  /\ InjectCycle
  /\ pc = "done"
  /\ calls[2].result = "Conflict"
  /\ ret = "fault"
  /\ defaultFinalizer \notin store[seen.ns].fins

\* The cycle read a source with the deletion marker and without the own marker.
FinalizedCycle ==
  /\ SourceRead
  /\ seen.ns # appNamespace
  /\ seen.del
  /\ defaultFinalizer \notin seen.fins

\* The cycle found no source.
GoneCycle == calls # <<>> /\ calls[1].ns # appNamespace /\ calls[1].result = "NotFound"

\* C13: a cycle for a source whose teardown is over (deletion marker without
\* own marker, or no source at all) issues no delete and no update and returns
\* success.
C13_ReentrantDeleteNoOp ==
  (FinalizedCycle \/ GoneCycle) => (pc = "done" /\ Len(calls) = 1 /\ ret = "ok")

\* A source with the deletion marker and only the external marker was read,
\* with a mirror in the store that the cycle leaves alone.
C13_Witness ==
  /\ FinalizedCycle
  /\ pc = "done"
  /\ ret = "ok"
  /\ Exists(store[appNamespace])

\* A stored source that is live and passes validation.
LiveValid(o) ==
  /\ Exists(o)
  /\ ~o.del
  /\ validate(o) = "ok"

\* The stored mirror carries the spec of the source in namespace n.
MirrorOf(n) ==
  /\ Exists(store[appNamespace])
  /\ store[appNamespace].spec = store[n].spec

\* C14: once nothing but the controller writes to the store, every live source
\* that passes validation eventually has a mirror with its spec, and keeps it.
C14_EventualSpecConvergence ==
  \A n \in SourceNamespaces :
    [](envOps = 0 /\ LiveValid(store[n]) => <>[]MirrorOf(n))

\* The same for a source that is the only one of its name.
SingleSourceConverges ==
  \A n \in SourceNamespaces :
    [](envOps = 0 /\ LiveValid(store[n]) /\ ~Exists(store[Other(n)]) => <>[]MirrorOf(n))

\* C15: after a successful cycle on a live valid source with the own marker,
\* while the source is as read and the mirror is as the cycle read or wrote it,
\* the mirror has the labels and the annotations of the source.
C15_MetadataCopied ==
  (/\ MirrorCycle
   /\ pc = "done"
   /\ ret = "ok"
   /\ store[seen.ns] = seen
   /\ LastCall.ns = appNamespace
   /\ LastCall.result = "ok"
   /\ store[appNamespace].rv = LastCall.obj.rv)
  => /\ store[appNamespace].labels = seen.labels
     /\ store[appNamespace].annotations = seen.annotations

\* C16: a source that is not found ends the cycle with success, any other
\* error of the read ends it with that error; no other call is made.
C16_FetchClassification ==
  (calls # <<>> /\ calls[1].result # "ok") =>
    /\ pc = "done"
    /\ Len(calls) = 1
    /\ ret = IF calls[1].result = "NotFound" THEN "ok" ELSE "fault"

\* The read of a stored source failed with a transient error.
C16_Witness ==
  /\ calls # <<>>
  /\ calls[1].result = "Fault"
  /\ Exists(store[calls[1].ns])
  /\ pc = "done"
  /\ ret = "fault"

\* The cycle read a live source outside the target namespace.
LiveCycle ==
  /\ SourceRead
  /\ seen.ns # appNamespace
  /\ ~seen.del

\* A store call of the controller.
CallStep == Len(calls') > Len(calls)

\* No call of the controller takes a marker from a live stored source.
LiveMarkersKept ==
  CallStep =>
    \A n \in SourceNamespaces :
      (Exists(store[n]) /\ ~store[n].del) =>
        (Exists(store'[n]) /\ store[n].fins \subseteq store'[n].fins)

\* C17: after a cycle on a live source outside the target namespace returned
\* success, the stored source carries the own marker; and no call of the
\* controller removes a marker from a stored source without deletion marker.
C17_OwnMarkerStays ==
  /\ []((LiveCycle /\ pc = "done" /\ ret = "ok" /\ Exists(store[seen.ns])) =>
          defaultFinalizer \in store[seen.ns].fins)
  /\ [][LiveMarkersKept]_vars

\* A source read with the external marker only has both markers after the
\* cycle.
C17_Witness ==
  /\ LiveCycle
  /\ seen.fins = {argoFinalizer}
  /\ pc = "done"
  /\ ret = "ok"
  /\ store[seen.ns].fins = Markers
  /\ ~store[seen.ns].del

\* C18: an error of the mirror lookup other than NotFound ends the cycle with
\* a fault, with no create and no update.
C18_LookupFaultReturned ==
  (MirrorCycle /\ pc = "done" /\ Len(calls) >= 2 /\ calls[2].result = "Fault") =>
    (Len(calls) = 2 /\ ret = "fault")

\* C19: a mirror of the source that is found without the external marker does
\* not get it from the update of the cycle.
C19_ExternalMarkerOnlyAtCreation ==
  (/\ MirrorCycle
   /\ MirrorFound
   /\ calls[2].obj.spec.dest = seen.ns
   /\ argoFinalizer \notin calls[2].obj.fins
   /\ Len(calls) = 3
   /\ calls[3].op = "update"
   /\ calls[3].result = "ok")
  => argoFinalizer \notin calls[3].obj.fins

\* A call of the controller leaves the mirror of the unchanged live valid
\* source in namespace n in place while a source of the same name exists in
\* the other namespace.
MirrorKept(n) ==
  (/\ CallStep
   /\ LiveValid(store[n])
   /\ defaultFinalizer \in store[n].fins
   /\ Exists(store[Other(n)])
   /\ MirrorOf(n)
   /\ store'[n] = store[n])
  => MirrorOf(n)'

\* C20: with two sources of one name in two source namespaces, no call of the
\* controller deletes or overwrites the mirror of a live valid source that
\* carries the own marker and is unchanged.
C20_SourcesDoNotInterfere ==
  [][\A n \in SourceNamespaces : MirrorKept(n)]_vars

====
